---------------------------- MODULE Spec2Model ----------------------------
(***************************************************************************)
(* State-machine model of src/server.js (shek-hrd/datehere).               *)
(*                                                                         *)
(* The file holds three successive versions of the signaling server, each  *)
(* with its own io.on('connection') block:                                 *)
(*   "discovery" : lines  36-65   users-present / user-joined / signal     *)
(*   "login"     : lines 108-182  users registry, login, offer, answer,    *)
(*                                ice-candidate, chat-message, disconnect  *)
(*   "signal"    : lines 210-231  signal / user-joined / user-left         *)
(* The variable `variant` says which of the three is the running process.  *)
(* One step of the model is one complete run of one event handler.         *)
(***************************************************************************)
EXTENDS Naturals, Sequences, FiniteSets, TLC

\* ------------------------------------------------------------------ bounds

\* Number of transport connections (socket ids) the run may open.
MaxConns == 3

\* ------------------------------------------------------------ value domains

\* socket.id values, handed out in this order as connections open.
SocketIdPool == << "s1", "s2", "s3", "s4", "s5" >>

Conns == { SocketIdPool[i] : i \in 1..MaxConns }

ConnIndex(c) == CHOOSE i \in 1..MaxConns : SocketIdPool[i] = c

\* The JavaScript value undefined (an absent property, no payload).
Undefined == "<undefined>"

\* An event sent with no payload at all: the handler's `data` is undefined.
NoPayload == [undefined |-> TRUE]

\* Values a client may send as the argument of 'login'.
LoginArgs == { "", "alice", "bob", "__proto__" }

\* Values a client may put in targetUserId.
TargetArgs == { "alice", "bob", "__proto__", Undefined }

\* Opaque negotiation blobs (offer / answer / candidate / message / signal).
Payloads == { "sdp1", "sdp2" }

\* The four routed events of the login-based relay.
RoutedKinds == { "offer", "answer", "ice-candidate", "chat-message" }

\* What a client may put in a fromUserId field of its own, which the handlers
\* never read: nothing (no such field), or a name.
SpoofArgs == { Undefined, "mallory" }

\* Values a client may put in the `to` field of a 'signal' payload.
ToArgs == Conns \cup { Undefined }

\* Values a client may put in the `from` field of a 'signal' payload.
FromArgs == Conns \cup { "mallory" }

Variants == { "discovery", "login", "signal" }

\* Mutant: only undefined counts as falsy, the empty string passes the guard.
TruthyUnlessUndefined(v) == v # Undefined

\* Mutant: the guard is missing.
TruthyAlways(v) == TRUE

\* JavaScript truthiness of the values above (!userId, if (targetSocketId)).
Truthy(v) == v \notin { Undefined, "" }

\* ------------------------------------------- the users object (line 108)
\* users = {} is a plain object: its own properties in insertion order, as a
\* sequence of [key, value], on top of what it inherits from Object.prototype.

\* Property names every plain object inherits (two representatives).
InheritedKeys == { "__proto__", "constructor" }

\* What reading an inherited name yields: a truthy value that is no socket id.
InheritedValue == "<Object.prototype member>"

HasOwn(o, k) == \E i \in 1..Len(o) : o[i].key = k

OwnIndex(o, k) == CHOOSE i \in 1..Len(o) : o[i].key = k

\* o[k]
Get(o, k) ==
    IF HasOwn(o, k) THEN o[OwnIndex(o, k)].value
    ELSE IF k \in InheritedKeys THEN InheritedValue
    ELSE Undefined

\* Mutant: the first writer wins, an id already present is not rebound.
PutUnlessPresent(o, k, v) ==
    IF k = "__proto__" \/ HasOwn(o, k) THEN o
    ELSE Append(o, [key |-> k, value |-> v])

\* o[k] = v, for v a string: assigning a primitive to __proto__ runs the
\* inherited setter, which ignores it; any other name becomes an own property
\* (updated in place when present, appended when new).
Put(o, k, v) ==
    IF k = "__proto__" THEN o
    ELSE IF HasOwn(o, k)
         THEN [o EXCEPT ![OwnIndex(o, k)] = [key |-> k, value |-> v]]
         ELSE Append(o, [key |-> k, value |-> v])

\* Mutant: the property is not removed.
DeleteNothing(o, k) == o

\* delete o[k]
Delete(o, k) == SelectSeq(o, LAMBDA e : e.key # k)

\* Object.keys(o)
\* Mutant: the values are listed in place of the keys.
KeysAsValues(o) == [i \in 1..Len(o) |-> o[i].value]

Keys(o) == [i \in 1..Len(o) |-> o[i].key]

\* ------------------------------------------------------------------ state

VARIABLES
    variant,   \* which version of the server is running
    sockets,   \* io.sockets.sockets: id of each connected socket -> [userId]
    nconn,     \* how many connections were accepted so far
    users,     \* the users object of the login-based relay
    inp,       \* the event the handler that just ran handled (Idle: none)
    out,       \* what that handler emitted, in emission order
    crashed,   \* a handler threw: the exception is uncaught, the process ends
    scn,       \* history: how far the run so far follows Scenario step by step
    view,      \* history: per connected socket, the peers its client was told of
    lastUserList  \* history: the argument of the latest io.emit('user-list')

vars == << variant, sockets, nconn, users, inp, out, crashed, scn, view,
          lastUserList >>

Open(s) == DOMAIN s

\* The sockets of a set, in the order they connected.
RECURSIVE InOrder(_)
InOrder(S) ==
    IF S = {} THEN << >>
    ELSE LET c == CHOOSE x \in S : \A y \in S : ConnIndex(x) <= ConnIndex(y)
         IN  << c >> \o InOrder(S \ { c })

Emission(to, ev, data) == [to |-> to, ev |-> ev, data |-> data]

\* Mutant: one socket.emit where a broadcast was meant.
EmitFirstOnly(S, ev, data) ==
    IF S = { } THEN << >> ELSE << Emission(InOrder(S)[1], ev, data) >>

\* An emit to every socket of S.
EmitAll(S, ev, data) ==
    LET order == InOrder(S)
    IN  [i \in 1..Len(order) |-> Emission(order[i], ev, data)]

\* Mutant: a room nobody is in falls back to everybody (io.emit).
EmitToOrEveryone(s, room, ev, data) ==
    EmitAll(IF room \in Open(s) THEN { room } ELSE Open(s), ev, data)

\* io.to(room).emit(ev, data): every open socket is in the room named by its
\* own id and in no other; a room nobody is in receives nothing.
EmitTo(s, room, ev, data) == EmitAll({ c \in Open(s) : c = room }, ev, data)

Event(ev, c, data) == [ev |-> ev, sock |-> c, data |-> data]

\* The run of section 8 of the specification: A (the first connection) logs
\* in as "alice", B (the second) as "bob", A offers to "bob", B disconnects,
\* A offers to "bob" again.
Scenario ==
    LET offer == [targetUserId |-> "bob", payload |-> "sdp1",
                  fromUserId |-> Undefined]
    IN  << Event("connection", "s1", NoPayload),
           Event("connection", "s2", NoPayload),
           Event("login", "s1", "alice"),
           Event("login", "s2", "bob"),
           Event("offer", "s1", offer),
           Event("disconnect", "s2", NoPayload),
           Event("offer", "s1", offer) >>

\* scn = k <= Len(Scenario): the events handled so far are exactly the first
\* k events of Scenario. scn = OffScenario: they are not.
OffScenario == Len(Scenario) + 1

Follows(k, e) ==
    /\ k < Len(Scenario)
    /\ e.ev = Scenario[k + 1].ev
    /\ e.sock = Scenario[k + 1].sock
    /\ e.data = Scenario[k + 1].data

\* What a client that holds the peer set v makes of one message: users-present
\* gives the set, user-joined adds a peer, user-left removes one (the
\* signal-only version wraps the id in {userId}); anything else leaves it.
Apply(v, m) ==
    IF m.ev = "users-present" THEN { m.data[i] : i \in 1..Len(m.data) }
    ELSE IF m.ev = "user-joined"
         THEN v \cup { IF variant = "signal" THEN m.data.userId ELSE m.data }
    ELSE IF m.ev = "user-left"
         THEN v \ { IF variant = "signal" THEN m.data.userId ELSE m.data }
    ELSE v

\* The peer set of socket d after the messages of o sent to d, in order.
RECURSIVE ApplyAll(_, _, _)
ApplyAll(v, o, d) ==
    IF o = << >> THEN v
    ELSE ApplyAll(IF Head(o).to = d THEN Apply(v, Head(o)) ELSE v, Tail(o), d)

\* The handler's emissions reach the clients of the connected sockets.
Delivers ==
    view' = [d \in Open(sockets') |->
                ApplyAll(IF d \in DOMAIN view THEN view[d] ELSE { }, out', d)]

\* The argument of the latest io.emit('user-list', ...) call, which is made
\* whether or not any socket is connected to receive it; none was made yet.
NoUserList == [sent |-> FALSE, ids |-> << >>]

UserList(ids) == [sent |-> TRUE, ids |-> ids]

\* Node runs one handler at a time, to completion: between two handlers the
\* process is back in its event loop, with nothing being handled.
Idle == inp.ev = "idle"

\* The sockets whose next event the event loop can take now.
Ready == IF Idle /\ ~crashed THEN Open(sockets) ELSE { }

\* The event loop takes event e and runs its handler.
Handles(e) ==
    /\ Idle /\ ~crashed
    /\ inp' = e
    /\ scn' = IF Follows(scn, e) THEN scn + 1 ELSE OffScenario

Init ==
    /\ variant \in Variants
    /\ sockets = << >>
    /\ nconn = 0
    /\ users = << >>
    /\ inp = Event("idle", Undefined, NoPayload)
    /\ scn = 0
    /\ view = << >>
    /\ lastUserList = NoUserList
    /\ out = << >>
    /\ crashed = FALSE

\* The next connection gets the next socket id.
NextSocket(c) == nconn < MaxConns /\ c = SocketIdPool[nconn + 1]

\* The namespace's socket map with socket c added (on connection), and
\* with socket c removed (on close, before 'disconnect' is emitted).
AddSocket(s, c) == [d \in DOMAIN s \cup { c } |->
                        IF d = c THEN [userId |-> Undefined] ELSE s[d]]

RemoveSocket(s, c) == [d \in DOMAIN s \ { c } |-> s[d]]

\* ------------------------------------------------- the login-based relay

\* io.on('connection') of the login-based relay: registers the handlers.
Connect(c) ==
    /\ variant = "login"
    /\ NextSocket(c)
    /\ sockets' = AddSocket(sockets, c)
    /\ nconn' = nconn + 1
    /\ Handles(Event("connection", c, NoPayload))
    /\ out' = << >>
    /\ UNCHANGED << variant, users, crashed >>
    /\ UNCHANGED lastUserList
    /\ Delivers

\* socket.on('login')
Login(c, userId) ==
    /\ variant = "login"
    /\ c \in Open(sockets)
    /\ Handles(Event("login", c, userId))
    /\ IF ~Truthy(userId)
       THEN /\ out' = << >>
            /\ UNCHANGED << sockets, users, lastUserList >>
       ELSE /\ users' = Put(users, userId, c)
            /\ sockets' = [sockets EXCEPT ![c] = [userId |-> userId]]
            /\ out' = EmitAll(Open(sockets), "user-list", Keys(users'))
            /\ lastUserList' = UserList(Keys(users'))
    /\ UNCHANGED << variant, nconn, crashed >>
    /\ Delivers

\* What a client may send with a routed event: nothing at all, or an object.
RoutedData ==
    { NoPayload } \cup
    [targetUserId : TargetArgs, payload : Payloads, fromUserId : SpoofArgs]

\* Mutant: the payload field is read under a name the client did not use.
ForwardedWithoutPayload(s, c, data) ==
    [fromUserId |-> s[c].userId, payload |-> Undefined]

\* The object a routed handler emits: the sender's recorded id and the
\* payload field as received.
Forwarded(s, c, data) ==
    [fromUserId |-> s[c].userId, payload |-> data.payload]

\* socket.on('offer' | 'answer' | 'ice-candidate' | 'chat-message'): the four
\* handlers differ only in the event name and in the name of the payload
\* field (offer, answer, candidate, message), written `payload` here.
\* Destructuring an undefined payload throws a TypeError.
Route(c, kind, data) ==
    /\ variant = "login"
    /\ c \in Open(sockets)
    /\ Handles(Event(kind, c, data))
    /\ IF data = NoPayload
       THEN /\ crashed' = TRUE
            /\ out' = << >>
       ELSE LET targetSocketId == Get(users, data.targetUserId)
            IN  /\ crashed' = FALSE
                /\ out' = IF Truthy(targetSocketId)
                          THEN EmitTo(sockets, targetSocketId, kind,
                                      Forwarded(sockets, c, data))
                          ELSE << >>
    /\ UNCHANGED << variant, sockets, nconn, users >>
    /\ UNCHANGED lastUserList
    /\ Delivers

\* socket.on('disconnect') of the login-based relay. The closing socket has
\* left every room before the handler runs, so io.emit does not reach it.
Disconnect(c) ==
    /\ variant = "login"
    /\ c \in Open(sockets)
    /\ Handles(Event("disconnect", c, NoPayload))
    /\ sockets' = RemoveSocket(sockets, c)
    /\ IF Truthy(sockets[c].userId)
       THEN /\ users' = Delete(users, sockets[c].userId)
            /\ out' = EmitAll(Open(sockets'), "user-list", Keys(users'))
            /\ lastUserList' = UserList(Keys(users'))
       ELSE /\ out' = << >>
            /\ UNCHANGED << users, lastUserList >>
    /\ UNCHANGED << variant, nconn, crashed >>
    /\ Delivers

\* ------------------------------------------- the connect-time discovery variant

\* Mutant: the new socket's own id is not filtered out.
OtherUsersUnfiltered(s, c) == InOrder(Open(s))

\* Mutant: the new socket is told of nobody.
OtherUsersNone(s, c) == << >>

\* Array.from(io.sockets.sockets.keys()).filter(id => id !== socket.id)
OtherUsers(s, c) == InOrder(Open(s) \ { c })

\* io.on('connection'), lines 36-47: users-present to the new socket, then
\* user-joined to every other socket.
DiscoveryConnect(c) ==
    /\ variant = "discovery"
    /\ NextSocket(c)
    /\ sockets' = AddSocket(sockets, c)
    /\ nconn' = nconn + 1
    /\ Handles(Event("connection", c, NoPayload))
    /\ out' = << Emission(c, "users-present", OtherUsers(sockets', c)) >>
              \o EmitAll(Open(sockets') \ { c }, "user-joined", c)
    /\ UNCHANGED << variant, users, crashed >>
    /\ UNCHANGED lastUserList
    /\ Delivers

\* What a client may send with 'signal': nothing at all, or an object.
SignalData ==
    { NoPayload } \cup [to : ToArgs, from : FromArgs, signal : Payloads]

\* socket.on('signal'), lines 51-56: io.to(to) reaches the socket whose id is
\* `to`, the sender included.
DiscoverySignal(c, data) ==
    /\ variant = "discovery"
    /\ c \in Open(sockets)
    /\ Handles(Event("signal", c, data))
    /\ IF data = NoPayload
       THEN /\ crashed' = TRUE
            /\ out' = << >>
       ELSE /\ crashed' = FALSE
            /\ out' = EmitTo(sockets, data.to, "signal",
                             [from |-> data.from, signal |-> data.signal])
    /\ UNCHANGED << variant, sockets, nconn, users >>
    /\ UNCHANGED lastUserList
    /\ Delivers

\* socket.on('disconnect'), lines 60-64.
DiscoveryDisconnect(c) ==
    /\ variant = "discovery"
    /\ c \in Open(sockets)
    /\ Handles(Event("disconnect", c, NoPayload))
    /\ sockets' = RemoveSocket(sockets, c)
    /\ out' = EmitAll(Open(sockets'), "user-left", c)
    /\ UNCHANGED << variant, nconn, users, crashed >>
    /\ UNCHANGED lastUserList
    /\ Delivers

\* ------------------------------------------------- the signal-only variant

\* io.on('connection'), lines 210-224: user-joined to every other socket.
SignalConnect(c) ==
    /\ variant = "signal"
    /\ NextSocket(c)
    /\ sockets' = AddSocket(sockets, c)
    /\ nconn' = nconn + 1
    /\ Handles(Event("connection", c, NoPayload))
    /\ out' = EmitAll(Open(sockets') \ { c }, "user-joined", [userId |-> c])
    /\ UNCHANGED << variant, users, crashed >>
    /\ UNCHANGED lastUserList
    /\ Delivers

\* socket.on('signal'), lines 215-219: socket.to(to) reaches the socket whose
\* id is `to`, except the sender.
SignalSignal(c, data) ==
    /\ variant = "signal"
    /\ c \in Open(sockets)
    /\ Handles(Event("signal", c, data))
    /\ IF data = NoPayload
       THEN /\ crashed' = TRUE
            /\ out' = << >>
       ELSE /\ crashed' = FALSE
            /\ out' = IF data.to = c THEN << >>
                      ELSE EmitTo(sockets, data.to, "signal",
                                  [from |-> data.from, signal |-> data.signal])
    /\ UNCHANGED << variant, sockets, nconn, users >>
    /\ UNCHANGED lastUserList
    /\ Delivers

\* socket.on('disconnect'), lines 227-230.
SignalDisconnect(c) ==
    /\ variant = "signal"
    /\ c \in Open(sockets)
    /\ Handles(Event("disconnect", c, NoPayload))
    /\ sockets' = RemoveSocket(sockets, c)
    /\ out' = EmitAll(Open(sockets'), "user-left", [userId |-> c])
    /\ UNCHANGED << variant, nconn, users, crashed >>
    /\ UNCHANGED lastUserList
    /\ Delivers

\* ------------------------------------------------------- the specification

\* The handler returns to the event loop. After an uncaught exception there is
\* no event loop to return to.
Return ==
    /\ ~Idle /\ ~crashed
    /\ inp' = Event("idle", Undefined, NoPayload)
    /\ out' = << >>
    /\ UNCHANGED << variant, sockets, nconn, users, crashed, scn, view,
                    lastUserList >>

Next ==
    \/ \E c \in Conns : Connect(c)
    \/ \E c \in Ready, userId \in LoginArgs : Login(c, userId)
    \/ \E c \in Ready, kind \in RoutedKinds, data \in RoutedData :
            Route(c, kind, data)
    \/ \E c \in Ready : Disconnect(c)
    \/ \E c \in Conns : DiscoveryConnect(c)
    \/ \E c \in Ready, data \in SignalData : DiscoverySignal(c, data)
    \/ \E c \in Ready : DiscoveryDisconnect(c)
    \/ \E c \in Conns : SignalConnect(c)
    \/ \E c \in Ready, data \in SignalData : SignalSignal(c, data)
    \/ \E c \in Ready : SignalDisconnect(c)
    \/ Return

Spec == Init /\ [][Next]_vars

\* ------------------------------------------------------------- the claims
\* A handler step is a step from Idle to the state in which inp holds the event
\* handled and out what the handler emitted. The definitions below read the
\* step (unprimed: before the handler; primed: after it) or the state after it.

\* The ids a client can announce and look up (the truthy ones).
AnnouncedIds == { id \in LoginArgs : Truthy(id) }

\* How often k occurs in the sequence q.
Count(q, k) == Cardinality({ i \in 1..Len(q) : q[i] = k })

\* The emissions of the handler that reached socket d.
Received(o, d) == { i \in 1..Len(o) : o[i].to = d }

\* The step is the login handler registering id for socket c.
RegisterStep(c, id) ==
    /\ variant = "login" /\ Idle
    /\ inp'.ev = "login" /\ inp'.sock = c /\ inp'.data = id
    /\ Truthy(id)

\* The step is the disconnect handler of a socket whose recorded id is id.
UnregisterStep(id) ==
    /\ variant = "login" /\ Idle
    /\ inp'.ev = "disconnect"
    /\ sockets[inp'.sock].userId = id
    /\ Truthy(id)

\* The state follows a routed event that carried a payload object.
Routed ==
    /\ variant = "login"
    /\ inp.ev \in RoutedKinds
    /\ inp.data # NoPayload

\* C1: for every sequence of logins and disconnects of logged-in connections,
\* users[id] is the connection that most recently logged in with id, and is
\* undefined when the most recent such operation on id was a disconnect or id
\* was never registered. Stated step by step, from the empty users object: a
\* login binds its id to its socket; a disconnect unbinds the socket's id;
\* every other id's lookup is left as it was.
C1_LookupIsLastRegistered ==
    [][ \A id \in AnnouncedIds :
            IF \E c \in Conns : RegisterStep(c, id)
            THEN Get(users', id) = inp'.sock
            ELSE IF UnregisterStep(id)
                 THEN Get(users', id) = Undefined
                 ELSE Get(users', id) = Get(users, id) ]_vars

\* C2: a routed event whose targetUserId is present in the registry delivers
\* exactly one event of the same kind, to the connection the registry maps the
\* id to, and to nobody else.
C2_PresentTargetGetsExactlyOne ==
    (Routed /\ HasOwn(users, inp.data.targetUserId)) =>
        /\ Len(out) = 1
        /\ out[1].ev = inp.ev
        /\ out[1].to = Get(users, inp.data.targetUserId)

\* The identity the server itself holds for socket c: the id recorded at login
\* in the login-based relay, the socket id in the versions without login.
ServerRecordedId(c) ==
    IF variant = "login" THEN sockets[c].userId ELSE c

\* C3: the sender identity attached to every forwarded event (offer, answer,
\* candidate, chat, signal) is the id the server recorded for the sending
\* connection, never a value from the client's payload.
C3_SenderIdIsServerRecorded ==
    \A i \in 1..Len(out) :
        /\ out[i].ev \in RoutedKinds =>
               out[i].data.fromUserId = ServerRecordedId(inp.sock)
        /\ out[i].ev = "signal" =>
               out[i].data.from = ServerRecordedId(inp.sock)

\* C4: a routed event whose targetUserId is not present in the registry
\* emits nothing to any connection, raises no error, and leaves the registry
\* unchanged.
C4_AbsentTargetIsDropped ==
    [][ ( /\ variant = "login" /\ Idle
          /\ inp'.ev \in RoutedKinds
          /\ inp'.data # NoPayload
          /\ ~HasOwn(users, inp'.data.targetUserId) )
        => ( out' = << >> /\ ~crashed' /\ users' = users ) ]_vars

\* Witness of C4: with somebody registered and two sockets open, an event for
\* an id with no entry was handled (an id never announced, and the inherited
\* name, for which users[id] is truthy).
C4_Witness ==
    /\ Routed
    /\ ~HasOwn(users, inp.data.targetUserId)
    /\ inp.data.targetUserId = "__proto__"
    /\ Len(users) > 0
    /\ Cardinality(Open(sockets)) >= 2
    /\ out = << >>

\* A socket some registry entry is bound to.
Registered(o, d) == \E i \in 1..Len(o) : o[i].value = d

\* C5: when a logged-in connection closes, its id is no longer in the registry
\* afterwards and every other connected socket that is registered at that
\* moment receives the leave notification (the user-list without the id)
\* exactly once.
C5_CloseUnregistersAndNotifies ==
    [][ ( /\ variant = "login" /\ Idle
          /\ inp'.ev = "disconnect"
          /\ Truthy(sockets[inp'.sock].userId) )
        => ( /\ ~HasOwn(users', sockets[inp'.sock].userId)
             /\ Count(Keys(users'), sockets[inp'.sock].userId) = 0
             /\ \A d \in Open(sockets) \ { inp'.sock } :
                    Registered(users, d) =>
                        /\ Cardinality(Received(out', d)) = 1
                        /\ \A i \in Received(out', d) :
                               /\ out'[i].ev = "user-list"
                               /\ out'[i].data = Keys(users') ) ]_vars

\* Witness of C5: "bob" closed while "alice", registered, was connected, and
\* "alice" was told.
C5_Witness ==
    /\ scn = 6
    /\ inp.ev = "disconnect"
    /\ Registered(users, "s1")
    /\ Cardinality(Received(out, "s1")) = 1

\* C6: in the run Scenario, B receives the first offer with sender id "alice"
\* and the payload unchanged, A then receives the leave notification for "bob"
\* (the user-list without it), and the second offer delivers nothing and
\* raises no error. (scn counts the scenario's events handled; out is read
\* right after the handler, before the server is back in its event loop.)
C6_Scenario ==
    ~Idle =>
        /\ scn = 5 => out = << Emission("s2", "offer",
                                  [fromUserId |-> "alice", payload |-> "sdp1"]) >>
        /\ scn = 6 => out = << Emission("s1", "user-list", << "alice" >>) >>
        /\ scn = 7 => (out = << >> /\ ~crashed)

\* Witness of C6: the whole scenario has run.
C6_Witness ==
    /\ scn = Len(Scenario)
    /\ inp.ev = "offer"
    /\ users = << [key |-> "alice", value |-> "s1"] >>

\* C7: when two logins carry the same id, from the same or from different
\* connections, the id snapshot afterwards contains the id exactly once and
\* the id is bound to the connection of the second login; and the registry
\* never holds two entries for one id. An open socket whose recorded id is the
\* id shows that an earlier login carried it.
C7_SecondLoginRebinds ==
    [][ /\ \A id \in AnnouncedIds : Count(Keys(users'), id) <= 1
        /\ \A c \in Conns, id \in AnnouncedIds :
             ( /\ RegisterStep(c, id)
               /\ \E d \in Open(sockets) : sockets[d].userId = id )
             => ( /\ Count(Keys(users'), id) = 1
                  /\ Get(users', id) = c ) ]_vars

\* C8: a login with an empty (falsy) id is ignored: the registry and the
\* socket's recorded id are unchanged and nothing is broadcast; and a socket
\* that never announced a truthy id is never the destination of a routed
\* event.
C8_FalsyLoginIgnored ==
    /\ [][ ( /\ variant = "login" /\ Idle
             /\ inp'.ev = "login"
             /\ inp'.data \in { "", Undefined } )
           => ( /\ users' = users
                /\ sockets' = sockets
                /\ out' = << >>
                /\ ~crashed' ) ]_vars
    /\ [](\A i \in 1..Len(out) :
             out[i].ev \in RoutedKinds => Truthy(sockets[out[i].to].userId))

\* Witness of C8: an unannounced socket sent login "" while somebody else was
\* registered, and is still unannounced.
C8_Witness ==
    /\ variant = "login"
    /\ inp.ev = "login"
    /\ inp.data = ""
    /\ sockets[inp.sock].userId = Undefined
    /\ Len(users) > 0
    /\ out = << >>

\* What tells a client who is present: users-present, or the user-list.
SnapshotEvents == { "users-present", "user-list" }

\* The ids present for the running version: the connected socket ids where
\* there is no login, the registered ids in the login-based relay.
PresentIds == IF variant = "login" THEN { users[i].key : i \in 1..Len(users) }
              ELSE Open(sockets)

Range(q) == { q[i] : i \in 1..Len(q) }

\* C9 as stated: when a connection opens, the server sends it exactly one
\* snapshot of the ids currently present other than its own (in the two
\* versions the claim is drawn from).
C9_SnapshotOnConnect ==
    (variant \in { "discovery", "login" } /\ inp.ev = "connection") =>
        /\ Cardinality({ i \in Received(out, inp.sock) :
                             out[i].ev \in SnapshotEvents }) = 1
        /\ \A i \in Received(out, inp.sock) :
               out[i].ev \in SnapshotEvents =>
                   Range(out[i].data) = PresentIds \ { inp.sock }

\* C9 as amended: in the connect-time discovery version the opening socket is
\* sent exactly one message, users-present, listing each other connected
\* socket id once; the other two versions send an opening socket nothing.
C9_SnapshotOnConnectInDiscovery ==
    inp.ev = "connection" =>
        IF variant = "discovery"
        THEN /\ Cardinality(Received(out, inp.sock)) = 1
             /\ \A i \in Received(out, inp.sock) :
                    /\ out[i].ev = "users-present"
                    /\ Range(out[i].data) = Open(sockets) \ { inp.sock }
                    /\ Len(out[i].data) = Cardinality(Open(sockets)) - 1
        ELSE Received(out, inp.sock) = { }

\* Witness of C9: a socket connected to the discovery version while two peers
\* were present and was told of both.
C9_Witness ==
    /\ variant = "discovery"
    /\ inp.ev = "connection"
    /\ Cardinality(Open(sockets)) = 3
    /\ \E i \in Received(out, inp.sock) : Len(out[i].data) = 2

\* C10: every login with a non-empty id registers the id and then broadcasts,
\* to all open connections, one presence list equal to the registry's id set
\* right after the registration, so the list contains the id just announced.
C10_LoginBroadcastsNewSnapshot ==
    [][ \A c \in Conns, id \in AnnouncedIds :
            RegisterStep(c, id) =>
                /\ Get(users', id) = c
                /\ out' = EmitAll(Open(sockets'), "user-list", Keys(users'))
                /\ \A i \in 1..Len(out') : Count(out'[i].data, id) = 1 ]_vars

\* The messages of o that tell socket d that peer c joined (left).
JoinNotices(o, d, c) ==
    { i \in Received(o, d) : o[i].ev = "user-joined" /\ o[i].data = c }

LeaveNotices(o, d, c) ==
    { i \in Received(o, d) : o[i].ev = "user-left" /\ o[i].data = c }

C12_EntriesMapToOpenConnections ==
    variant = "login" =>
        /\ \A i \in 1..Len(users) : users[i].value \in Open(sockets)
        /\ Open(sockets) = { } => users = << >>

\* C13: after a second connection logs in with an id held by a first, open,
\* connection, the id is mapped to the second and the first is still
\* connected; and a routed event reaches no socket other than the one its
\* target id is mapped to, so none reaches the first connection while the id
\* stays mapped to the second.
C13_OverwrittenHolderIsUnreachable ==
    /\ [][ \A c \in Conns, id \in AnnouncedIds :
             ( /\ RegisterStep(c, id)
               /\ HasOwn(users, id)
               /\ Get(users, id) \in Open(sockets) \ { c } )
             => ( /\ Get(users, id) \in Open(sockets')
                  /\ Get(users', id) = c ) ]_vars
    /\ [](Routed =>
            \A d \in Conns :
                d # Get(users, inp.data.targetUserId) => Received(out, d) = { })

\* Witness of C13: s1 and then s2 logged in as "alice", both are connected,
\* and an event for "alice" was delivered, to s2.
C13_Witness ==
    /\ Routed
    /\ inp.data.targetUserId = "alice"
    /\ { "s1", "s2" } \subseteq Open(sockets)
    /\ sockets["s1"].userId = "alice"
    /\ Get(users, "alice") = "s2"
    /\ Cardinality(Received(out, "s2")) = 1

\* C14: closing a connection that never logged in leaves the registry
\* unchanged and broadcasts nothing.
C14_UnannouncedCloseIsSilent ==
    [][ ( /\ variant = "login" /\ Idle
          /\ inp'.ev = "disconnect"
          /\ sockets[inp'.sock].userId = Undefined )
        => ( users' = users /\ out' = << >> ) ]_vars

\* Witness of C14: an unannounced socket closed while a registered socket was
\* connected, and nothing was sent.
C14_Witness ==
    /\ variant = "login"
    /\ inp.ev = "disconnect"
    /\ \A d \in Open(sockets) : sockets[d].userId = "alice"
    /\ Cardinality(Open(sockets)) = 1
    /\ nconn = 2
    /\ users = << [key |-> "alice", value |-> "s1"] >>
    /\ out = << >>

\* C15: no offer, answer, ice-candidate, chat-message or signal event makes
\* its handler raise an error, whatever its payload, absent included: the
\* handler emits nothing or one forward and leaves the registry unchanged.
C15_NoEventMakesAHandlerFail ==
    [][ ( Idle /\ inp'.ev \in RoutedKinds \cup { "signal" } )
        => ( ~crashed' /\ users' = users /\ Len(out') <= 1 ) ]_vars

\* C16: a disconnect removes no registry entry bound to another connection:
\* every id mapped to a connection other than the closing one is mapped to
\* it after the disconnect too.
C16_CloseRemovesOnlyOwnEntry ==
    [][ ( variant = "login" /\ Idle /\ inp'.ev = "disconnect" )
        => \A i \in 1..Len(users) :
              users[i].value # inp'.sock
                  => ( /\ HasOwn(users', users[i].key)
                       /\ Get(users', users[i].key) = users[i].value ) ]_vars

\* C17: each open connection is the value of at most one registry entry, and
\* that entry's id is the id recorded on the connection.
C17_OneEntryPerConnection ==
    variant = "login" =>
        \A c \in Open(sockets) :
            \A i, j \in 1..Len(users) :
                ( users[i].value = c /\ users[j].value = c )
                    => ( i = j /\ users[i].key = sockets[c].userId )

\* C18: an offer, answer, ice-candidate or chat-message handler leaves the
\* registry and every connection's recorded id as they were, target found or
\* not, and what it delivers carries the payload it received.
C18_RoutedHandlersChangeNoState ==
    [][ ( variant = "login" /\ Idle /\ inp'.ev \in RoutedKinds )
        => /\ users' = users
           /\ sockets' = sockets
           /\ inp'.data # NoPayload =>
                 \A i \in 1..Len(out') :
                     out'[i].data.payload = inp'.data.payload ]_vars

\* Witness of C18: an event for "bob" carrying "sdp2" was delivered while
\* two ids are registered.
C18_Witness ==
    /\ Routed
    /\ inp.data.targetUserId = "bob"
    /\ inp.data.payload = "sdp2"
    /\ Len(users) = 2
    /\ Len(out) = 1
    /\ out[1].data.payload = "sdp2"

\* The registry's current id set.
RegisteredIds(o) == { o[i].key : i \in 1..Len(o) }

\* C19: in the login-based relay the most recently broadcast user-list equals
\* the registry's current id set, and the registry is empty if nothing was
\* ever broadcast; every step that changes the registry broadcasts the new id
\* set to every connected socket.
C19_UserListTracksRegistry ==
    /\ [](variant = "login" =>
            /\ lastUserList.sent => Range(lastUserList.ids) = RegisteredIds(users)
            /\ ~lastUserList.sent => users = << >>)
    /\ [][ ( variant = "login" /\ users' # users )
           => /\ lastUserList' = UserList(Keys(users'))
              /\ Range(Keys(users')) = RegisteredIds(users')
              /\ \A d \in Open(sockets') :
                    \E i \in Received(out', d) :
                        /\ out'[i].ev = "user-list"
                        /\ Range(out'[i].data) = RegisteredIds(users') ]_vars

\* Witness of C19: "alice" (s1) and "bob" (s2) were registered, s1 closed, and
\* the list broadcast last holds "bob" only.
C19_Witness ==
    /\ variant = "login"
    /\ inp.ev = "disconnect" /\ inp.sock = "s1"
    /\ users = << [key |-> "bob", value |-> "s2"] >>
    /\ lastUserList = UserList(<< "bob" >>)
    /\ Cardinality(Received(out, "s2")) = 1

\* C20: in the connect-time discovery variant the peer set a connection
\* builds from its users-present list and the user-joined and user-left
\* notices sent to it, in emission order, is the set of the other connections
\* that are open.
C20_ViewIsOtherOpenConnections ==
    variant = "discovery" =>
        \A c \in Open(sockets) : view[c] = Open(sockets) \ { c }

\* Witness of C20: three sockets connected, s1 closed, and s2 and s3 each
\* know of the other only.
C20_Witness ==
    /\ variant = "discovery"
    /\ nconn = 3
    /\ inp.ev = "disconnect" /\ inp.sock = "s1"
    /\ view = [d \in { "s2", "s3" } |-> { "s2", "s3" } \ { d }]

=============================================================================
